---- MODULE Spec2Model ----
(***************************************************************************)
(* Finance data pipeline: ingest (CSV folder), transform (normalise,       *)
(* classify, deduplicate), load (SQLite tables + run log), the KPI         *)
(* queries, the report, and main()'s exit code.                            *)
(*                                                                         *)
(* Text is a sequence of one-character strings.  A missing cell (NaN after *)
(* concatenating files with different columns) is the value NA.            *)
(* Amounts are exact decimals: a float is [nan, neg, mag] with mag counted *)
(* in units of 10^-FracDigits, and the sign kept apart so that -0.0 and    *)
(* 0.0 are different floats that compare equal, as in IEEE 754.            *)
(***************************************************************************)
EXTENDS Integers, Sequences, FiniteSets, TLC

VARIABLES
    pandasTwo,   \* the installed pandas parses a column with ONE inferred format, ISO included (pandas >= 2)
    columns,     \* column names of the combined input table
    raw_df,      \* combined input table: sequence of raw rows
    pc,          \* stage the run is at
    out,         \* transform_transactions: the normalised table `out`
    clean_df,    \* transform_transactions: deduplicated clean rows
    issues_df,   \* transform_transactions: issue rows
    clean_pre,   \* transform_transactions: clean_df ahead of drop_duplicates (line 139)
    tmeta,       \* TransformMetadata
    clock,       \* UTC wall clock, in seconds
    db,          \* the SQLite file: transactions, data_issues, pipeline_runs
    lmeta,       \* LoadMetadata of the current run
    results,     \* QueryResults of the current run
    runs,        \* run_id computed by every load so far, in order
    result,      \* PipelineResult returned by run_pipeline
    exit_code,   \* code main() exits with: <<>> while the process runs
    loading      \* load_to_sqlite in progress: <<>> or its run_id, loaded_at_utc
                 \* and the store as the call found it

vars == <<pandasTwo, columns, raw_df, pc, out, clean_df, issues_df, clean_pre,
          tmeta, clock, db, lmeta, results, runs, result, exit_code, loading>>

----------------------------------------------------------------------------
(* Bounds                                                                  *)

MaxRows == 2        \* rows of one combined input table
FracDigits == 3     \* decimal places an amount text may carry
MaxRuns == 2        \* pipeline runs against one database file
MaxClock == 3       \* clock ticks the model lets pass
TicksPerSecond == 2 \* clock ticks in one second

----------------------------------------------------------------------------
(* Text                                                                    *)

NA == <<"NaN">>

Digits == <<"0", "1", "2", "3", "4", "5", "6", "7", "8", "9">>

IsDigit(c) == \E i \in 1..10 : Digits[i] = c

DigitVal(c) == (CHOOSE i \in 1..10 : Digits[i] = c) - 1

IsSpace(c) == c \in {" ", "\t"}

RECURSIVE Pow10(_)
Pow10(n) == IF n = 0 THEN 1 ELSE 10 * Pow10(n - 1)

RECURSIVE CollapseSpaces(_)
\* str.replace(r"\s+", " "): every run of whitespace becomes one space
CollapseSpaces(s) ==
    IF s = <<>> THEN <<>>
    ELSE IF IsSpace(Head(s))
         THEN IF Len(s) > 1 /\ IsSpace(s[2])
              THEN CollapseSpaces(Tail(s))
              ELSE <<" ">> \o CollapseSpaces(Tail(s))
         ELSE <<Head(s)>> \o CollapseSpaces(Tail(s))

RECURSIVE LStrip(_)
LStrip(s) == IF s # <<>> /\ IsSpace(Head(s)) THEN LStrip(Tail(s)) ELSE s

RECURSIVE RStrip(_)
RStrip(s) ==
    IF s # <<>> /\ IsSpace(s[Len(s)]) THEN RStrip(SubSeq(s, 1, Len(s) - 1)) ELSE s

Strip(s) == RStrip(LStrip(s))

FillNa(s) == IF s = NA THEN <<>> ELSE s

\* _clean_text on one cell
CleanText(s) == Strip(CollapseSpaces(FillNa(s)))

LowerChar(c) ==
    CASE c = "C" -> "c"
      [] c = "R" -> "r"
      [] c = "F" -> "f"
      [] c = "U" -> "u"
      [] OTHER -> c

\* str.lower
Lower(s) == [i \in 1..Len(s) |-> LowerChar(s[i])]

RECURSIVE RemoveChars(_, _)
\* str.replace(<character class>, "")
RemoveChars(s, cs) ==
    IF s = <<>> THEN <<>>
    ELSE IF Head(s) \in cs THEN RemoveChars(Tail(s), cs)
         ELSE <<Head(s)>> \o RemoveChars(Tail(s), cs)

AllDigits(s) == \A i \in 1..Len(s) : IsDigit(s[i])

RECURSIVE DigitsToNat(_)
DigitsToNat(s) ==
    IF s = <<>> THEN 0
    ELSE 10 * DigitsToNat(SubSeq(s, 1, Len(s) - 1)) + DigitVal(s[Len(s)])

RECURSIVE NatToDigits(_)
NatToDigits(n) ==
    IF n < 10 THEN <<Digits[n + 1]>>
    ELSE NatToDigits(n \div 10) \o <<Digits[(n % 10) + 1]>>

RECURSIVE ZeroPad(_, _)
ZeroPad(s, w) == IF Len(s) >= w THEN s ELSE ZeroPad(<<"0">> \o s, w)

----------------------------------------------------------------------------
(* Date Canonicalizer: _parse_date                                         *)

NaT == [nat |-> TRUE, y |-> 0, m |-> 0, d |-> 0]

IsLeap(y) == (y % 4 = 0 /\ y % 100 # 0) \/ y % 400 = 0

DaysInMonth(y, m) ==
    IF m = 2 THEN (IF IsLeap(y) THEN 29 ELSE 28)
    ELSE IF m \in {4, 6, 9, 11} THEN 30 ELSE 31

\* a calendar date inside the range of a pandas Timestamp
ValidDate(y, m, d) ==
    /\ y \in 1678..2261
    /\ m \in 1..12
    /\ d \in 1..DaysInMonth(y, m)

MkDate(y, m, d) ==
    IF ValidDate(y, m, d) THEN [nat |-> FALSE, y |-> y, m |-> m, d |-> d] ELSE NaT

\* "%Y-%m-%d"
ParseISO(s) ==
    IF /\ Len(s) = 10
       /\ s[5] = "-" /\ s[8] = "-"
       /\ AllDigits(SubSeq(s, 1, 4)) /\ AllDigits(SubSeq(s, 6, 7))
       /\ AllDigits(SubSeq(s, 9, 10))
    THEN MkDate(DigitsToNat(SubSeq(s, 1, 4)), DigitsToNat(SubSeq(s, 6, 7)),
                DigitsToNat(SubSeq(s, 9, 10)))
    ELSE NaT

\* "%m/%d/%Y"
ParseMDY(s) ==
    IF /\ Len(s) = 10
       /\ s[3] = "/" /\ s[6] = "/"
       /\ AllDigits(SubSeq(s, 1, 2)) /\ AllDigits(SubSeq(s, 4, 5))
       /\ AllDigits(SubSeq(s, 7, 10))
    THEN MkDate(DigitsToNat(SubSeq(s, 7, 10)), DigitsToNat(SubSeq(s, 1, 2)),
                DigitsToNat(SubSeq(s, 4, 5)))
    ELSE NaT

\* parsing one text on its own, any format the parser knows (dateutil)
ParseAnyFormat(s) == IF ~ParseISO(s).nat THEN ParseISO(s) ELSE ParseMDY(s)

\* parsing one text with one given format (strptime); non-matching text is coerced to NaT
ParseWithFormat(s, fmt) == IF fmt = "iso" THEN ParseISO(s) ELSE ParseMDY(s)

\* guess_datetime_format on one text
GuessFormat(s) ==
    IF ~ParseISO(s).nat THEN "iso"
    ELSE IF ~ParseMDY(s).nat THEN "mdy" ELSE "none"

\* The format pd.to_datetime(raw, errors="coerce", infer_datetime_format=True)
\* applies to the whole column, "none" when every text is parsed on its own.
\*   pandas 1.x: guessed from the first element; an ISO guess takes the
\*               general per-element path, any other guess is applied to all.
\*   pandas 2.x: guessed from the first non-empty element and applied to all.
InferredFormat(raw, p2) ==
    IF p2
    THEN IF \A i \in 1..Len(raw) : raw[i] = <<>>
         THEN "none"
         ELSE GuessFormat(raw[CHOOSE i \in 1..Len(raw) :
                                 /\ raw[i] # <<>>
                                 /\ \A j \in 1..(i - 1) : raw[j] = <<>>])
    ELSE IF Len(raw) = 0 THEN "none"
         ELSE IF GuessFormat(raw[1]) = "mdy" THEN "mdy" ELSE "none"

\* pd.to_datetime(raw, errors="coerce", infer_datetime_format=True)
ToDatetime(raw, p2) ==
    LET fmt == InferredFormat(raw, p2)
    IN  [i \in 1..Len(raw) |->
            IF raw[i] = <<>> THEN NaT
            ELSE IF fmt = "none" THEN ParseAnyFormat(raw[i])
                 ELSE ParseWithFormat(raw[i], fmt)]

\* strftime("%Y-%m-%d"), NaT giving "" after fillna("")
Strftime(t) ==
    IF t.nat THEN <<>>
    ELSE ZeroPad(NatToDigits(t.y), 4) \o <<"-">> \o ZeroPad(NatToDigits(t.m), 2)
         \o <<"-">> \o ZeroPad(NatToDigits(t.d), 2)

\* _parse_date on a column: [iso, invalid], one entry per row
ParseDate(series, p2) ==
    LET raw    == [i \in 1..Len(series) |-> CleanText(series[i])]
        parsed == ToDatetime(raw, p2)
    IN  [iso     |-> [i \in 1..Len(series) |-> Strftime(parsed[i])],
         invalid |-> [i \in 1..Len(series) |-> parsed[i].nat /\ raw[i] # <<>>]]

----------------------------------------------------------------------------
(* Amount Canonicalizer: _parse_amount                                     *)

NaN == [nan |-> TRUE, neg |-> FALSE, mag |-> 0]

Scale == Pow10(FracDigits)

MkFloat(neg, mag) == [nan |-> FALSE, neg |-> neg, mag |-> mag]

\* the number a float stands for (0 for NaN, which callers exclude first)
Val(x) == IF x.neg THEN 0 - x.mag ELSE x.mag

\* parentheses taken off without the minus sign
ParenDropped(s) ==
    IF Len(s) >= 2 /\ s[1] = "(" /\ s[Len(s)] = ")"
    THEN SubSeq(s, 2, Len(s) - 1)
    ELSE s

\* str.replace(r"^\((.*)\)$", r"-\1")
ParenToMinus(s) ==
    IF Len(s) >= 2 /\ s[1] = "(" /\ s[Len(s)] = ")"
    THEN <<"-">> \o SubSeq(s, 2, Len(s) - 1)
    ELSE s

RECURSIVE PadRight(_, _)
PadRight(s, w) == IF Len(s) >= w THEN SubSeq(s, 1, w) ELSE PadRight(s \o <<"0">>, w)

\* an unsigned decimal: digits, at most one ".", at least one digit
UnsignedDecimal(s) ==
    LET dots == {i \in 1..Len(s) : s[i] = "."}
    IN  IF dots = {}
        THEN IF s # <<>> /\ AllDigits(s)
             THEN [ok |-> TRUE, mag |-> DigitsToNat(s) * Scale]
             ELSE [ok |-> FALSE, mag |-> 0]
        ELSE LET p == CHOOSE i \in dots : TRUE
                 ip == SubSeq(s, 1, p - 1)
                 fp == SubSeq(s, p + 1, Len(s))
             IN  IF /\ Cardinality(dots) = 1
                    /\ AllDigits(ip) /\ AllDigits(fp)
                    /\ Len(ip) + Len(fp) >= 1
                 THEN [ok |-> TRUE,
                       mag |-> DigitsToNat(ip) * Scale
                               + DigitsToNat(PadRight(fp, FracDigits))]
                 ELSE [ok |-> FALSE, mag |-> 0]

\* pd.to_numeric(text, errors="coerce") on one text: a signed decimal, else NaN
ToNumeric(s) ==
    IF s = <<>> THEN NaN
    ELSE LET signed == Head(s) \in {"-", "+"}
             u == UnsignedDecimal(IF signed THEN Tail(s) ELSE s)
         IN  IF u.ok THEN MkFloat(Head(s) = "-", u.mag) ELSE NaN

\* the text pd.to_numeric is given: parentheses rewritten, "$" and "," removed
AmountCleanup(cell) == RemoveChars(ParenToMinus(CleanText(cell)), {",", "$"})

\* raw_is_blank of _parse_amount
AmountIsBlank(cell) == AmountCleanup(cell) = <<>>

\* _parse_amount on one cell: [amt, invalid]
ParseAmount(cell) ==
    LET amt == ToNumeric(AmountCleanup(cell))
    IN  [amt |-> amt, invalid |-> amt.nan /\ ~AmountIsBlank(cell)]

----------------------------------------------------------------------------
(* Identity Key Builder: _make_txn_key                                     *)

\* Series.round(2): to the nearest cent, ties to even, the sign kept (so a
\* small negative amount rounds to -0.0); NaN stays NaN
Round2(x) ==
    IF x.nan THEN x
    ELSE LET unit == Pow10(FracDigits - 2)
             q == x.mag \div unit
             r == x.mag % unit
             up == 2 * r > unit \/ (2 * r = unit /\ q % 2 = 1)
         IN  MkFloat(x.neg, (IF up THEN q + 1 ELSE q) * unit)

RECURSIVE StripZeros(_)
StripZeros(s) ==
    IF Len(s) > 1 /\ s[Len(s)] = "0" THEN StripZeros(SubSeq(s, 1, Len(s) - 1)) ELSE s

\* astype("Float64").astype(str): "4.5", "-1200.0", "0.0", "-0.0"; NaN is "<NA>"
FormatFloat(x) ==
    IF x.nan THEN <<"<", "N", "A", ">">>
    ELSE (IF x.neg THEN <<"-">> ELSE <<>>)
         \o NatToDigits(x.mag \div Scale) \o <<".">>
         \o StripZeros(ZeroPad(NatToDigits(x.mag % Scale), FracDigits))

\* _make_txn_key for one row
MakeTxnKey(date_iso, desc, amt) ==
    date_iso \o <<"|">> \o Lower(CleanText(desc)) \o <<"|">> \o FormatFloat(Round2(amt))

----------------------------------------------------------------------------
(* Input tables                                                            *)

\* one row of the combined table; the inputs have no "source" column, and a
\* cell of a column the table lacks is never read
RawRow(d, desc, a, cat, sf) ==
    [date |-> d, description |-> desc, amount |-> a, category |-> cat,
     source_file |-> sf]

\* the raw rows a combined table is drawn from: ISO and MM/DD/YYYY dates,
\* blank, whitespace-only, missing and unparseable cells, currency symbols,
\* thousands separators, parenthesized and signed amounts, both zeros, a
\* sub-cent amount, a "|" in a description, blank and literal categories
RowCatalog ==
    { RawRow(<<"2", "0", "2", "4", "-", "0", "1", "-", "0", "2">>,
             <<"C", "o", "f", "f", "e", "e">>, <<"4", ".", "5", "0">>,
             <<"F", "o", "o", "d">>, <<"a", ".", "c", "s", "v">>),
      RawRow(<<"0", "1", "/", "0", "2", "/", "2", "0", "2", "4">>,
             <<"c", "o", "f", "f", "e", "e">>, <<"$", "4", ".", "5", "0">>,
             <<>>, <<"a", ".", "c", "s", "v">>),
      RawRow(<<"b", "a", "d">>,
             <<"R", "e", "n", "t">>, <<"-", "1", "0">>,
             NA, <<"a", ".", "c", "s", "v">>),
      RawRow(<<"2", "0", "2", "4", "-", "0", "2", "-", "0", "3">>,
             <<"R", "e", "n", "t">>, <<"(", "1", "2", "0", "0", ".", "0", "0", ")">>,
             <<"U", "n", "c", "a", "t", "e", "g", "o", "r", "i", "z", "e", "d">>, <<"b", ".", "c", "s", "v">>),
      RawRow(<<>>,
             <<"C", "o", "f", "f", "e", "e">>, <<"4", ".", "5", "0">>,
             <<"F", "o", "o", "d">>, <<"a", ".", "c", "s", "v">>),
      RawRow(<<"2", "0", "2", "4", "-", "0", "1", "-", "0", "2">>,
             <<"C", "o", "f", "f", "e", "e">>, <<"$">>,
             <<"F", "o", "o", "d">>, <<"a", ".", "c", "s", "v">>),
      RawRow(<<"2", "0", "2", "4", "-", "0", "1", "-", "0", "2">>,
             <<"C", "o", "f", "f", "e", "e">>, <<>>,
             <<"U", "n", "c", "a", "t", "e", "g", "o", "r", "i", "z", "e", "d">>, <<"b", ".", "c", "s", "v">>),
      RawRow(NA,
             <<"C", "o", "f", "f", "e", "e">>, <<"1", "x">>,
             <<"F", "o", "o", "d">>, <<"a", ".", "c", "s", "v">>),
      RawRow(<<"2", "0", "2", "4", "-", "0", "1", "-", "0", "2">>,
             <<"F", "e", "e">>, <<"0", ".", "0", "0">>,
             <<>>, <<"a", ".", "c", "s", "v">>),
      RawRow(<<"2", "0", "2", "4", "-", "0", "1", "-", "0", "2">>,
             <<"F", "e", "e">>, <<"-", "0", ".", "0", "0">>,
             <<>>, <<"b", ".", "c", "s", "v">>),
      RawRow(<<" ", "\t">>,
             <<" ", "C", "o", "f", "f", "e", "e", " ", "\t">>, <<" ", "4", ".", "5", "0", " ">>,
             <<"\t">>, <<"a", ".", "c", "s", "v">>),
      RawRow(<<"2", "0", "2", "4", "-", "0", "1", "-", "0", "2">>,
             <<"a", "|", "b">>, <<"4", ".", "5", "0", "6">>,
             <<"F", "o", "o", "d">>, <<"a", ".", "c", "s", "v">>),
      RawRow(<<"0", "2", "/", "0", "3", "/", "2", "0", "2", "4">>,
             <<"R", "e", "n", "t">>, <<"$", "1", ",", "2", "3", "4", ".", "5", "6">>,
             <<"R", "e", "n", "t">>, <<"b", ".", "c", "s", "v">>) }

AllColumns == {"date", "amount", "description", "category", "source_file"}

Tables == UNION {[1..n -> RowCatalog] : n \in 0..MaxRows}

----------------------------------------------------------------------------
(* Row Classifier & Deduplicator: transform_transactions                   *)

\* the column, or "" for every row when the input has no such column
TextColumn(cols, name, cell) == IF name \in cols THEN CleanText(cell) ELSE <<>>

\* the table `out` once every derived column is set (lines 100-133)
Normalize(df, cols, p2) ==
    LET pd == ParseDate([i \in 1..Len(df) |-> df[i].date], p2)
    IN  [i \in 1..Len(df) |->
            LET pa == ParseAmount(df[i].amount)
                desc == TextColumn(cols, "description", df[i].description)
            IN  [idx |-> i,
                 date |-> df[i].date,
                 amount |-> df[i].amount,
                 date_iso |-> pd.iso[i],
                 description |-> desc,
                 amount_num |-> pa.amt,
                 category |-> TextColumn(cols, "category", df[i].category),
                 source |-> TextColumn(cols, "source", <<>>),
                 source_file |-> df[i].source_file,
                 issue_date_invalid |-> pd.invalid[i],
                 issue_amount_invalid |-> pa.invalid,
                 has_issue |-> pd.invalid[i] \/ pa.invalid,
                 txn_key |-> MakeTxnKey(pd.iso[i], desc, pa.amt)]]

HasIssue(r) == r.has_issue

\* out[out["has_issue"]]
IssueRows(o) == SelectSeq(o, HasIssue)

NoIssue(r) == ~r.has_issue

NoIssueAndDated(r) == ~r.has_issue /\ r.date_iso # <<>>

\* the selection the comment on line 138 describes: rows with an empty date_iso left out
CleanRowsDatedOnly(o) == SelectSeq(o, NoIssueAndDated)

\* out[~out["has_issue"]]
CleanRows(o) == SelectSeq(o, NoIssue)

RECURSIVE DropDuplicatesKeepLast(_)
\* drop_duplicates(subset=["txn_key"], keep="last")
DropDuplicatesKeepLast(rows) ==
    IF rows = <<>> THEN <<>>
    ELSE IF \E j \in 2..Len(rows) : rows[j].txn_key = Head(rows).txn_key
         THEN DropDuplicatesKeepLast(Tail(rows))
         ELSE <<Head(rows)>> \o DropDuplicatesKeepLast(Tail(rows))

RECURSIVE DropDuplicates(_)
\* drop_duplicates(subset=["txn_key"], keep="first")
DropDuplicates(rows) ==
    IF rows = <<>> THEN <<>>
    ELSE LET init == SubSeq(rows, 1, Len(rows) - 1)
             last == rows[Len(rows)]
         IN  IF \E j \in 1..Len(init) : init[j].txn_key = last.txn_key
             THEN DropDuplicates(init)
             ELSE DropDuplicates(init) \o <<last>>

\* columns kept in the clean output: no has_issue, no issue_* flags
CleanColumns(r) ==
    [idx |-> r.idx, date_iso |-> r.date_iso, description |-> r.description,
     amount_num |-> r.amount_num, category |-> r.category, source |-> r.source,
     source_file |-> r.source_file, txn_key |-> r.txn_key,
     date |-> r.date, amount |-> r.amount]

\* columns kept in the issues output: everything but has_issue
IssueColumns(r) ==
    [idx |-> r.idx, date |-> r.date, date_iso |-> r.date_iso,
     description |-> r.description, amount |-> r.amount,
     amount_num |-> r.amount_num, category |-> r.category, source |-> r.source,
     source_file |-> r.source_file, txn_key |-> r.txn_key,
     issue_date_invalid |-> r.issue_date_invalid,
     issue_amount_invalid |-> r.issue_amount_invalid]

ProjectClean(rows) == [i \in 1..Len(rows) |-> CleanColumns(rows[i])]

ProjectIssues(rows) == [i \in 1..Len(rows) |-> IssueColumns(rows[i])]

NoMeta == [rows_in |-> 0, rows_out_clean |-> 0, rows_out_issues |-> 0,
           duplicates_removed |-> 0]

\* PipelineResult before run_pipeline has returned
NoResult == [returned |-> FALSE, success |-> FALSE, message |-> "", run_id |-> <<>>]

\* the handler for UserFacingError: PipelineResult(success=False, message=str(e))
InputError(e) == [returned |-> TRUE, success |-> FALSE, message |-> e, run_id |-> <<>>]

\* a handler that reported the exception as a success
UnexpectedErrorAsSuccess(e) ==
    [returned |-> TRUE, success |-> TRUE, message |-> "Unexpected Error: " \o e,
     run_id |-> <<>>]

\* the handler for any other Exception: the message is prefixed
UnexpectedError(e) ==
    [returned |-> TRUE, success |-> FALSE, message |-> "Unexpected Error: " \o e,
     run_id |-> <<>>]

\* the return at the end of the try block
Succeeded(run_id) ==
    [returned |-> TRUE, success |-> TRUE,
     message |-> "Pipeline completed successfully.", run_id |-> <<run_id>>]

\* step 2 of run_pipeline: transform_transactions; a table without its date
\* or amount column is a ValueError, which run_pipeline catches
Transform ==
    /\ pc = "transform"
    /\ IF {"date", "amount"} \subseteq columns
       THEN LET o == Normalize(raw_df, columns, pandasTwo)
                issues == IssueRows(o)
                clean0 == CleanRows(o)
                clean == DropDuplicates(clean0)
            IN  /\ out' = o
                /\ issues_df' = ProjectIssues(issues)
                /\ clean_df' = ProjectClean(clean)
                /\ tmeta' = [rows_in |-> Len(raw_df),
                             rows_out_clean |-> Len(clean),
                             rows_out_issues |-> Len(issues),
                             duplicates_removed |-> Len(clean0) - Len(clean)]
                /\ clean_pre' = ProjectClean(clean0)
                /\ pc' = "load"
                /\ result' = result
       ELSE /\ pc' = "failed"
            /\ result' = UnexpectedError("transform_transactions missing required column")
            /\ UNCHANGED <<out, issues_df, clean_df, tmeta, clean_pre>>
    /\ UNCHANGED <<pandasTwo, columns, raw_df, clock, db, lmeta, results, runs,
                   exit_code, loading>>

----------------------------------------------------------------------------
(* Persistence: load_to_sqlite                                             *)

\* datetime.utcnow().strftime("%Y%m%d_%H%M%S"): the time cut to whole seconds
MakeRunId(t) == t \div TicksPerSecond

\* datetime.utcnow().replace(microsecond=0).isoformat() + "Z"
UtcNowIso(t) == t \div TicksPerSecond

\* _add_audit_columns
AddAuditColumns(df, run_id, loaded_at_utc) ==
    [i \in 1..Len(df) |->
        df[i] @@ [run_id |-> run_id, loaded_at_utc |-> loaded_at_utc]]

\* a to_sql that appends whatever the mode
ToSqlAppend(old, new, mode) == old \o new

\* DataFrame.to_sql(name, conn, if_exists=mode)
ToSql(old, new, mode) == IF mode = "replace" THEN new ELSE old \o new

\* INSERT OR REPLACE INTO pipeline_runs: run_id is the primary key
InsertOrReplace(log, run_id, entry) ==
    [id \in (DOMAIN log) \cup {run_id} |-> IF id = run_id THEN entry ELSE log[id]]

EmptyDb == [has_tables |-> FALSE, transactions |-> <<>>, data_issues |-> <<>>,
            pipeline_runs |-> <<>>]

NoLoadMeta == [run_id |-> 0, loaded_at_utc |-> 0, rows_loaded_clean |-> 0,
               rows_loaded_issues |-> 0]

\* clean_out.to_sql("transactions", ...): pandas commits the write on its own
WriteTransactions(d, clean_out, mode) ==
    [d EXCEPT !.has_tables = TRUE,
              !.transactions = ToSql(@, clean_out, mode)]

\* issues_out.to_sql("data_issues", ...): pandas commits the write on its own
WriteIssues(d, issues_out, mode) ==
    [d EXCEPT !.data_issues = ToSql(@, issues_out, mode)]

\* the INSERT OR REPLACE into pipeline_runs and conn.commit()
LogRun(d, run_id, loaded_at_utc, clean_out, issues_out) ==
    [d EXCEPT !.pipeline_runs =
        InsertOrReplace(@, run_id,
            [loaded_at_utc |-> loaded_at_utc,
             rows_loaded_clean |-> Len(clean_out),
             rows_loaded_issues |-> Len(issues_out)])]

\* load_to_sqlite(clean_df, issues_df, db_path, mode=mode); the clock is read
\* twice (run_id, then loaded_at_utc) and dt ticks pass in between
Load(mode, dt) ==
    /\ pc = "load"
    /\ clock + dt <= MaxClock
    /\ LET run_id == MakeRunId(clock)
           loaded_at_utc == UtcNowIso(clock + dt)
           clean_out == AddAuditColumns(clean_df, run_id, loaded_at_utc)
           issues_out == AddAuditColumns(issues_df, run_id, loaded_at_utc)
       IN  /\ db' = LogRun(WriteIssues(WriteTransactions(db, clean_out, mode),
                                        issues_out, mode),
                            run_id, loaded_at_utc, clean_out, issues_out)
           /\ lmeta' = [run_id |-> run_id, loaded_at_utc |-> loaded_at_utc,
                        rows_loaded_clean |-> Len(clean_out),
                        rows_loaded_issues |-> Len(issues_out)]
           /\ runs' = Append(runs, [run_id |-> run_id, mode |-> mode])
    /\ clock' = clock + dt
    /\ pc' = "query"
    /\ UNCHANGED <<pandasTwo, columns, raw_df, out, clean_df, issues_df, clean_pre,
                   tmeta, results,
                   result, exit_code, loading>>

----------------------------------------------------------------------------
(* Aggregator: get_query_results                                           *)

\* an SQL value: NULL or a number (in units of 10^-FracDigits)
Null == [null |-> TRUE, v |-> 0]

Num(v) == [null |-> FALSE, v |-> v]

RECURSIVE SeqSum(_)
SeqSum(s) == IF s = <<>> THEN 0 ELSE Head(s) + SeqSum(Tail(s))

\* amount_num as stored by to_sql: NaN is written as NULL
IsNullAmount(r) == r.amount_num.nan

\* CASE WHEN amount_num > 0 THEN amount_num ELSE 0 END
IncomeTerm(r) ==
    IF ~IsNullAmount(r) /\ Val(r.amount_num) > 0 THEN Val(r.amount_num) ELSE 0

\* CASE WHEN amount_num < 0 THEN amount_num ELSE 0 END
ExpenseTerm(r) ==
    IF ~IsNullAmount(r) /\ Val(r.amount_num) < 0 THEN Val(r.amount_num) ELSE 0

\* SUM(<a CASE that is never NULL>): NULL over no rows
SumIncome(rows) ==
    IF rows = <<>> THEN Null
    ELSE Num(SeqSum([i \in 1..Len(rows) |-> IncomeTerm(rows[i])]))

SumExpense(rows) ==
    IF rows = <<>> THEN Null
    ELSE Num(SeqSum([i \in 1..Len(rows) |-> ExpenseTerm(rows[i])]))

\* SUM(amount_num): NULL rows are skipped, NULL when no row has a value
SumAmount(rows) ==
    IF \A i \in 1..Len(rows) : IsNullAmount(rows[i]) THEN Null
    ELSE Num(SeqSum([i \in 1..Len(rows) |->
                        IF IsNullAmount(rows[i]) THEN 0 ELSE Val(rows[i].amount_num)]))

\* ABS(x)
SqlAbs(x) == IF x.null THEN Null ELSE Num(IF x.v < 0 THEN 0 - x.v ELSE x.v)

\* ROUND(x, 2): to the nearest cent, ties away from zero
SqlRound2(x) ==
    IF x.null THEN Null
    ELSE LET unit == Pow10(FracDigits - 2)
             a == IF x.v < 0 THEN 0 - x.v ELSE x.v
             q == IF 2 * (a % unit) >= unit THEN (a \div unit) + 1 ELSE a \div unit
         IN  Num(IF x.v < 0 THEN 0 - q * unit ELSE q * unit)

\* SUBSTR(date_iso, 1, 7)
YearMonth(r) == SubSeq(r.date_iso, 1, IF Len(r.date_iso) < 7 THEN Len(r.date_iso) ELSE 7)

\* TRIM(x): SQLite removes spaces only
RECURSIVE SqlTrim(_)
SqlTrim(s) ==
    IF s # <<>> /\ Head(s) = " " THEN SqlTrim(Tail(s))
    ELSE IF s # <<>> /\ s[Len(s)] = " " THEN SqlTrim(SubSeq(s, 1, Len(s) - 1))
         ELSE s

Uncategorized == <<"U", "n", "c", "a", "t", "e", "g", "o", "r", "i", "z", "e", "d">>

\* the grouping key without the CASE: a blank category stays its own group
CategoryLabelNoBucket(r) == r.category

\* CASE WHEN category IS NULL OR TRIM(category) = '' THEN 'Uncategorized' ELSE category END
CategoryLabel(r) ==
    IF r.category = NA \/ SqlTrim(r.category) = <<>> THEN Uncategorized ELSE r.category

SourceFile(r) == r.source_file

\* characters in code-point order (BINARY collation)
Ascii == <<"\t", " ", "$", "(", ")", ",", "-", ".", "/",
           "0", "1", "2", "3", "4", "5", "6", "7", "8", "9", "<", ">",
           "A", "C", "F", "N", "R", "U",
           "a", "b", "c", "d", "e", "f", "g", "i", "n", "o", "r", "s", "t",
           "u", "v", "x", "z", "|">>

Ord(c) == CHOOSE i \in 1..Len(Ascii) : Ascii[i] = c

RECURSIVE TextLess(_, _)
TextLess(a, b) ==
    IF b = <<>> THEN FALSE
    ELSE IF a = <<>> THEN TRUE
    ELSE IF Head(a) = Head(b) THEN TextLess(Tail(a), Tail(b))
    ELSE Ord(Head(a)) < Ord(Head(b))

\* the sequence that lists the set S in the strict total order B (a set of
\* pairs <<earlier, later>>)
Ordered(S, B) ==
    [i \in 1..Cardinality(S) |->
        CHOOSE g \in S : Cardinality({h \in S : <<h, g>> \in B}) = i - 1]

\* 1) KPI summary
KpiSummary(rows) ==
    [row_count |-> Len(rows),
     total_income |-> SqlRound2(SumIncome(rows)),
     total_expenses |-> SqlRound2(SqlAbs(SumExpense(rows))),
     net_total |-> SqlRound2(SumAmount(rows))]

\* the rows of one month, in table order
MonthGroup(rows, k) == LET Same(r) == YearMonth(r) = k IN SelectSeq(rows, Same)

MonthlyRow(rows, k) ==
    LET g == MonthGroup(rows, k)
    IN  [year_month |-> k,
         net_total |-> SqlRound2(SumAmount(g)),
         income |-> SqlRound2(SumIncome(g)),
         expenses |-> SqlRound2(SqlAbs(SumExpense(g))),
         row_count |-> Len(g)]

MonthBefore(g, h) == TextLess(g.year_month, h.year_month)

\* 2) monthly trends: GROUP BY SUBSTR(date_iso, 1, 7) ORDER BY year_month
MonthlyTrends(rows) ==
    LET S == {MonthlyRow(rows, YearMonth(rows[i])) : i \in 1..Len(rows)}
    IN  Ordered(S, {p \in S \X S : MonthBefore(p[1], p[2])})

\* the rows of one category label, in table order
CategoryGroup(rows, k) == LET Same(r) == CategoryLabel(r) = k IN SelectSeq(rows, Same)

CategoryRow(rows, k) ==
    LET g == CategoryGroup(rows, k)
    IN  [category |-> k,
         net_total |-> SqlRound2(SumAmount(g)),
         row_count |-> Len(g)]

\* ABS(net_total) as a sort key: NULL sorts below every number
AbsKey(g) == IF g.net_total.null THEN 0 - 1 ELSE SqlAbs(g.net_total).v

\* ORDER BY ABS(net_total) DESC; rows that tie are listed by label
CategoryBefore(g, h) ==
    \/ AbsKey(g) > AbsKey(h)
    \/ AbsKey(g) = AbsKey(h) /\ TextLess(g.category, h.category)

\* 3) category summary
CategorySummary(rows) ==
    LET S == {CategoryRow(rows, CategoryLabel(rows[i])) : i \in 1..Len(rows)}
    IN  Ordered(S, {p \in S \X S : CategoryBefore(p[1], p[2])})

\* the rows of one source file, in table order
SourceFileGroup(rows, k) == LET Same(r) == SourceFile(r) = k IN SelectSeq(rows, Same)

SourceFileRow(rows, k) ==
    LET g == SourceFileGroup(rows, k)
    IN  [source_file |-> k,
         net_total |-> SqlRound2(SumAmount(g)),
         row_count |-> Len(g)]

\* ORDER BY row_count DESC; rows that tie are listed by file name
SourceFileBefore(g, h) ==
    \/ g.row_count > h.row_count
    \/ g.row_count = h.row_count /\ TextLess(g.source_file, h.source_file)

\* 4) source file summary
SourceFileSummary(rows) ==
    LET S == {SourceFileRow(rows, SourceFile(rows[i])) : i \in 1..Len(rows)}
    IN  Ordered(S, {p \in S \X S : SourceFileBefore(p[1], p[2])})

\* FROM transactions WHERE run_id = ?
InRun(table, run_id) ==
    LET Mine(r) == r.run_id = run_id IN SelectSeq(table, Mine)

\* get_query_results(db_path, run_id=run_id) on a database that has the table
GetQueryResults(d, run_id) ==
    LET rows == InRun(d.transactions, run_id)
    IN  [kpi_summary |-> KpiSummary(rows),
         monthly_trends |-> MonthlyTrends(rows),
         category_summary |-> CategorySummary(rows),
         source_file_summary |-> SourceFileSummary(rows)]

NoResults == [kpi_summary |-> [row_count |-> 0, total_income |-> Null,
                               total_expenses |-> Null, net_total |-> Null],
              monthly_trends |-> <<>>, category_summary |-> <<>>,
              source_file_summary |-> <<>>]

\* step 4 of run_pipeline; a database without the transactions table is a RuntimeError
Query ==
    /\ pc = "query"
    /\ IF db.has_tables
       THEN /\ results' = GetQueryResults(db, lmeta.run_id)
            /\ pc' = "report"
            /\ result' = result
       ELSE /\ results' = results
            /\ pc' = "failed"
            /\ result' = UnexpectedError("SQLite table 'transactions' not found.")
    /\ UNCHANGED <<pandasTwo, columns, raw_df, out, clean_df, issues_df, clean_pre,
                   tmeta, clock, db, lmeta, runs, exit_code, loading>>

\* step 5 of run_pipeline: generate_excel_report writes the views, then success
Report ==
    /\ pc = "report"
    /\ pc' = "done"
    /\ result' = Succeeded(lmeta.run_id)
    /\ UNCHANGED <<pandasTwo, columns, raw_df, out, clean_df, issues_df, clean_pre,
                   tmeta, clock, db, lmeta, results, runs, exit_code, loading>>

----------------------------------------------------------------------------
(* One pipeline run over any input table                                   *)

Init ==
    /\ pandasTwo \in BOOLEAN
    /\ columns = AllColumns
    /\ raw_df \in Tables
    /\ pc = "transform"
    /\ out = <<>>
    /\ clean_df = <<>>
    /\ issues_df = <<>>
    /\ clean_pre = <<>>
    /\ tmeta = NoMeta
    /\ clock = 0
    /\ db = EmptyDb
    /\ lmeta = NoLoadMeta
    /\ results = NoResults
    /\ runs = <<>>
    /\ result = NoResult
    /\ exit_code = <<>>
    /\ loading = <<>>

LoadReplace == \E dt \in {0, 1} : Load("replace", dt)

Next == Transform \/ LoadReplace \/ Query \/ Report

Spec == Init /\ [][Next]_vars

----------------------------------------------------------------------------
(* Properties of one pipeline run                                          *)

Transformed == pc \in {"load", "query", "report", "done"}

Queried == pc \in {"report", "done"}

\* the DataFrame index values of a table's rows
Idx(rows) == {rows[k].idx : k \in 1..Len(rows)}

C2_Dedup ==
    Transformed =>
        /\ tmeta.rows_out_clean = Len(clean_df)
        /\ tmeta.duplicates_removed = Len(clean_pre) - tmeta.rows_out_clean
        /\ \A k, l \in 1..Len(clean_df) :
              /\ k < l => clean_df[k].idx < clean_df[l].idx
              /\ k # l => clean_df[k].txn_key # clean_df[l].txn_key
        /\ \A k \in 1..Len(clean_pre) :
              (clean_pre[k] \in {clean_df[l] : l \in 1..Len(clean_df)})
                 <=> ~\E j \in 1..(k - 1) : clean_pre[j].txn_key = clean_pre[k].txn_key
        /\ Idx(clean_df) \subseteq Idx(clean_pre)
        /\ Len(issues_df) = Cardinality({i \in 1..Len(out) : out[i].has_issue})

C2_Witness ==
    /\ Transformed
    /\ tmeta.duplicates_removed >= 1
    /\ Len(clean_pre) = 2
    /\ Len(clean_df) = 1
    /\ clean_df[1].idx = 1

\* a date text that parses as a calendar date when taken on its own
Parseable(t) == ~ParseAnyFormat(t).nat

\* C3: _parse_date gives ("", FALSE) for an empty, missing or whitespace-only
\* text, ("", TRUE) for a non-empty text that is no calendar date, and
\* (its YYYY-MM-DD form, FALSE) for every text that is a calendar date.
C3_DateCanonicalizer ==
    Transformed =>
        \A i \in 1..Len(out) :
            LET t == CleanText(raw_df[i].date)
            IN  /\ t = <<>> => out[i].date_iso = <<>> /\ ~out[i].issue_date_invalid
                /\ (t # <<>> /\ ~Parseable(t))
                      => out[i].date_iso = <<>> /\ out[i].issue_date_invalid
                /\ Parseable(t)
                      => /\ out[i].date_iso = Strftime(ParseAnyFormat(t))
                         /\ ~out[i].issue_date_invalid

\* C4: issue_amount_invalid is TRUE exactly for an amount field that is
\* non-blank as given and does not canonicalize to a number, "$" included.
C4_AmountInvalidFlag ==
    Transformed =>
        \A i \in 1..Len(out) :
            out[i].issue_amount_invalid
                <=> (CleanText(raw_df[i].amount) # <<>> /\ out[i].amount_num.nan)

\* both undefined, or both defined and equal once rounded to 2 decimals
SameRoundedAmount(a, b) ==
    \/ a.nan /\ b.nan
    \/ ~a.nan /\ ~b.nan /\ Val(Round2(a)) = Val(Round2(b))

\* C5: two normalized records have the same txn_key iff they have the same
\* date_iso, the same lowercased normalized description and the same amount
\* rounded to 2 decimals.
C5_KeyEquality ==
    Transformed =>
        \A i, j \in 1..Len(out) :
            (out[i].txn_key = out[j].txn_key)
                <=> /\ out[i].date_iso = out[j].date_iso
                    /\ Lower(out[i].description) = Lower(out[j].description)
                    /\ SameRoundedAmount(out[i].amount_num, out[j].amount_num)

\* C6: no clean row, and no persisted transactions row, has an empty date_iso.
C6_CleanRowsDated ==
    /\ Transformed => \A k \in 1..Len(clean_df) : clean_df[k].date_iso # <<>>
    /\ \A k \in 1..Len(db.transactions) : db.transactions[k].date_iso # <<>>

\* the persisted clean rows the run's queries read
Scope == InRun(db.transactions, lmeta.run_id)

\* C7: every monthly row is keyed by a 7-character YYYY-MM prefix, rows are
\* in ascending key order, and persisted rows with an empty date_iso belong
\* to no monthly row.
C7_MonthlyTrends ==
    Queried =>
        LET m == results.monthly_trends
            dated == {k \in 1..Len(Scope) : Scope[k].date_iso # <<>>}
        IN  /\ \A g \in 1..Len(m) :
                  /\ Len(m[g].year_month) = 7
                  /\ \E k \in dated : SubSeq(Scope[k].date_iso, 1, 7) = m[g].year_month
                  /\ m[g].row_count =
                        Cardinality({k \in dated :
                            SubSeq(Scope[k].date_iso, 1, 7) = m[g].year_month})
            /\ \A g, h \in 1..Len(m) :
                  g < h => TextLess(m[g].year_month, m[h].year_month)
            /\ SeqSum([g \in 1..Len(m) |-> m[g].row_count]) = Cardinality(dated)

\* rows of the category summary labelled "Uncategorized"
UncategorizedRows ==
    {g \in 1..Len(results.category_summary) :
        results.category_summary[g].category = Uncategorized}

BlankCategory(r) == r.category = NA \/ CleanText(r.category) = <<>>

\* C8 as claimed: at most one row is labelled "Uncategorized" and its
\* row_count is exactly the number of rows with a null or blank category.
C8_UncategorizedOnlyBlank ==
    Queried =>
        /\ Cardinality(UncategorizedRows) <= 1
        /\ \A g \in UncategorizedRows :
              results.category_summary[g].row_count =
                  Cardinality({k \in 1..Len(Scope) : BlankCategory(Scope[k])})

\* C8 amended: at most one row is labelled "Uncategorized"; it exists iff some
\* row has a null or blank category or the category text "Uncategorized", and
\* its row_count is the number of those rows.
C8_UncategorizedBucket ==
    Queried =>
        LET n == Cardinality({k \in 1..Len(Scope) :
                     BlankCategory(Scope[k]) \/ Scope[k].category = Uncategorized})
        IN  /\ Cardinality(UncategorizedRows) = (IF n = 0 THEN 0 ELSE 1)
            /\ \A g \in UncategorizedRows :
                  results.category_summary[g].row_count = n

C8_Witness ==
    /\ Queried
    /\ \E k \in 1..Len(Scope) : Scope[k].category = <<>>
    /\ \E k \in 1..Len(Scope) : Scope[k].category = Uncategorized
    /\ \E g \in UncategorizedRows : results.category_summary[g].row_count = 2

\* the amounts of the rows in scope that are defined, as numbers
DefinedAmounts ==
    [k \in 1..Len(Scope) |->
        IF Scope[k].amount_num.nan THEN 0 ELSE Val(Scope[k].amount_num)]

\* C9: the summary reports row_count = number of rows, total_income = sum of
\* the positive amounts, total_expenses = |sum of the negative amounts|
\* (0 without negatives), net_total = sum of all amounts = total_income -
\* total_expenses, rows with an undefined amount adding nothing.
C9_Summary ==
    Queried =>
        LET k == results.kpi_summary
            pos == SeqSum([i \in 1..Len(Scope) |->
                       IF DefinedAmounts[i] > 0 THEN DefinedAmounts[i] ELSE 0])
            neg == SeqSum([i \in 1..Len(Scope) |->
                       IF DefinedAmounts[i] < 0 THEN DefinedAmounts[i] ELSE 0])
        IN  /\ k.row_count = Len(Scope)
            /\ k.total_income = Num(pos)
            /\ k.total_expenses = Num(0 - neg)
            /\ k.net_total = Num(SeqSum(DefinedAmounts))
            /\ k.net_total = Num(k.total_income.v - k.total_expenses.v)

----------------------------------------------------------------------------
(* Several runs against one database file                                  *)

\* the input tables of the runs
RunTables ==
    { <<RawRow(<<"2", "0", "2", "4", "-", "0", "1", "-", "0", "2">>, <<"C", "o", "f", "f", "e", "e">>,
                 <<"4", ".", "5", "0">>, <<"F", "o", "o", "d">>, <<"a", ".", "c", "s", "v">>)>>,
      <<RawRow(<<"2", "0", "2", "4", "-", "0", "1", "-", "0", "2">>, <<"C", "o", "f", "f", "e", "e">>,
                 <<"4", ".", "5", "0">>, <<"F", "o", "o", "d">>, <<"a", ".", "c", "s", "v">>),
        RawRow(<<"0", "1", "/", "0", "2", "/", "2", "0", "2", "4">>, <<"c", "o", "f", "f", "e", "e">>,
                 <<"$", "4", ".", "5", "0">>, <<>>, <<"a", ".", "c", "s", "v">>)>>,
      <<RawRow(<<"b", "a", "d">>, <<"R", "e", "n", "t">>,
                 <<"-", "1", "0">>, <<"R", "e", "n", "t">>, <<"b", ".", "c", "s", "v">>),
        RawRow(<<"2", "0", "2", "4", "-", "0", "1", "-", "0", "2">>, <<"C", "o", "f", "f", "e", "e">>,
                 <<"4", ".", "5", "0">>, <<"F", "o", "o", "d">>, <<"a", ".", "c", "s", "v">>)>> }

\* time passes; only load_to_sqlite reads the clock, so the ticks that
\* matter are those ahead of a load
Tick ==
    /\ pc = "load"
    /\ clock < MaxClock
    /\ clock' = clock + 1
    /\ UNCHANGED <<pandasTwo, columns, raw_df, pc, out, clean_df, issues_df,
                   clean_pre, tmeta, db, lmeta, results, runs,
                   result, exit_code, loading>>

\* load_to_sqlite called in either mode
LoadAny == \E mode \in {"replace", "append"}, dt \in {0, 1} : Load(mode, dt)

\* run_pipeline is started again, on a new input folder and the same database
NewRun ==
    /\ pc = "done"
    /\ Len(runs) < MaxRuns
    /\ raw_df' \in RunTables
    /\ pc' = "transform"
    /\ out' = <<>>
    /\ clean_df' = <<>>
    /\ issues_df' = <<>>
    /\ clean_pre' = <<>>
    /\ tmeta' = NoMeta
    /\ lmeta' = NoLoadMeta
    /\ results' = NoResults
    /\ result' = NoResult
    /\ UNCHANGED <<pandasTwo, columns, clock, db, runs, exit_code, loading>>

InitRuns ==
    /\ pandasTwo \in BOOLEAN
    /\ columns \in {AllColumns, {"date", "amount", "source_file"}}
    /\ raw_df \in RunTables
    /\ pc = "transform"
    /\ out = <<>>
    /\ clean_df = <<>>
    /\ issues_df = <<>>
    /\ clean_pre = <<>>
    /\ tmeta = NoMeta
    /\ clock = 0
    /\ db = EmptyDb
    /\ lmeta = NoLoadMeta
    /\ results = NoResults
    /\ runs = <<>>
    /\ result = NoResult
    /\ exit_code = <<>>
    /\ loading = <<>>

NextRuns == Transform \/ Tick \/ LoadAny \/ Query \/ Report \/ NewRun

SpecRuns == InitRuns /\ [][NextRuns]_vars

\* C10: any two distinct runs of load_to_sqlite get different run_id values,
\* each run keeps its own pipeline_runs entry, and the query filtered by a
\* run's run_id sees exactly the rows that run wrote.
C10_FreshRunId ==
    /\ \A i, j \in 1..Len(runs) : i # j => runs[i].run_id # runs[j].run_id
    /\ Cardinality(DOMAIN db.pipeline_runs) = Len(runs)
    /\ Queried =>
          Scope = AddAuditColumns(clean_df, lmeta.run_id, lmeta.loaded_at_utc)

----------------------------------------------------------------------------
(* main(): run_pipeline from ingest to exit, with load_to_sqlite taken     *)
(* one committed statement at a time                                       *)

CoffeeRow ==
    RawRow(<<"2", "0", "2", "4", "-", "0", "1", "-", "0", "2">>, <<"C", "o", "f", "f", "e", "e">>,
           <<"4", ".", "5", "0">>, <<"F", "o", "o", "d">>, <<>>)

RentRow ==
    RawRow(<<"2", "0", "2", "4", "-", "0", "2", "-", "0", "3">>, <<"R", "e", "n", "t">>,
           <<"(", "1", "2", "0", "0", ".", "0", "0", ")">>, <<"R", "e", "n", "t">>, <<>>)

BadRow ==
    RawRow(<<"b", "a", "d">>, <<"R", "e", "n", "t">>,
           <<"-", "1", "0">>, <<"R", "e", "n", "t">>, <<>>)

\* a CSV file: its name, its header once renamed to the canonical names,
\* and its rows
File(name, cols, rows) == [name |-> name, columns |-> cols, rows |-> rows]

\* what main() may find on disk: raw_dir, its CSV files in name order, and
\* whether config/column_map.json can be read
FolderCatalog ==
    { [exists |-> FALSE, config |-> TRUE, files |-> <<>>],
      [exists |-> TRUE, config |-> TRUE, files |-> <<>>],
      [exists |-> TRUE, config |-> FALSE,
       files |-> <<File(<<"a", ".", "c", "s", "v">>,
                        {"date", "amount", "description", "category"}, <<CoffeeRow>>)>>],
      [exists |-> TRUE, config |-> TRUE,
       files |-> <<File(<<"a", ".", "c", "s", "v">>,
                        {"date", "description", "category"}, <<CoffeeRow>>)>>],
      [exists |-> TRUE, config |-> TRUE,
       files |-> <<File(<<"a", ".", "c", "s", "v">>,
                        {"date", "amount", "description", "category"},
                        <<CoffeeRow, CoffeeRow, BadRow>>)>>],
      [exists |-> TRUE, config |-> TRUE,
       files |-> <<File(<<"a", ".", "c", "s", "v">>,
                        {"date", "amount", "description", "category"}, <<RentRow>>),
                   File(<<"b", ".", "c", "s", "v">>,
                        {"date", "amount"}, <<CoffeeRow, BadRow>>)>>] }

\* the columns of pd.concat(dfs): every column of every file, and source_file
RECURSIVE CombinedColumns(_)
CombinedColumns(files) ==
    IF files = <<>> THEN {"source_file"}
    ELSE Head(files).columns \cup CombinedColumns(Tail(files))

\* the rows of one file inside pd.concat(dfs): source_file is the file name,
\* and a column the file lacks is NaN
FileRows(f) ==
    [i \in 1..Len(f.rows) |->
        [c \in DOMAIN f.rows[i] |->
            IF c = "source_file" THEN f.name
            ELSE IF c \in f.columns THEN f.rows[i][c] ELSE NA]]

RECURSIVE Combined(_)
Combined(files) ==
    IF files = <<>> THEN <<>> ELSE FileRows(Head(files)) \o Combined(Tail(files))

\* the UserFacingError ingest_csv_folder raises, "" if it raises none
IngestError(folder) ==
    IF ~folder.exists THEN "Input folder not found"
    ELSE IF folder.files = <<>> THEN "No CSV files found"
    ELSE IF ~folder.config THEN "Missing config file"
    ELSE IF ~({"date", "amount"} \subseteq CombinedColumns(folder.files))
         THEN "Missing required canonical column(s) after mapping"
    ELSE ""

\* step 1 of run_pipeline: ingest_csv_folder
Ingest ==
    /\ pc = "ingest"
    /\ \E folder \in FolderCatalog :
          IF IngestError(folder) # ""
          THEN /\ pc' = "failed"
               /\ result' = InputError(IngestError(folder))
               /\ UNCHANGED <<raw_df, columns>>
          ELSE /\ raw_df' = Combined(folder.files)
               /\ columns' = CombinedColumns(folder.files)
               /\ pc' = "transform"
               /\ result' = result
    /\ UNCHANGED <<pandasTwo, out, clean_df, issues_df, clean_pre, tmeta, clock,
                   db, lmeta, results, runs, exit_code, loading>>

\* the statements of load_to_sqlite that commit, in order
LoadSteps == {"load_transactions", "load_issues", "load_log"}

\* load_to_sqlite up to _ensure_run_log_table: the clock is read twice, the
\* audit columns are added, the connection is opened
LoadStart ==
    /\ pc = "load"
    /\ \E dt \in {0, 1} :
          /\ clock + dt <= MaxClock
          /\ loading' = <<[run_id |-> MakeRunId(clock),
                           loaded_at_utc |-> UtcNowIso(clock + dt),
                           before |-> db]>>
          /\ runs' = Append(runs, [run_id |-> MakeRunId(clock), mode |-> "replace"])
          /\ clock' = clock + dt
    /\ pc' = "load_transactions"
    /\ UNCHANGED <<pandasTwo, columns, raw_df, out, clean_df, issues_df, clean_pre,
                   tmeta, db, lmeta, results, result, exit_code>>

\* clean_out and issues_out of the call in progress
CleanOut == AddAuditColumns(clean_df, loading[1].run_id, loading[1].loaded_at_utc)

IssuesOut == AddAuditColumns(issues_df, loading[1].run_id, loading[1].loaded_at_utc)

\* clean_out.to_sql("transactions", conn, if_exists="replace")
LoadTransactions ==
    /\ pc = "load_transactions"
    /\ db' = WriteTransactions(db, CleanOut, "replace")
    /\ pc' = "load_issues"
    /\ UNCHANGED <<pandasTwo, columns, raw_df, out, clean_df, issues_df, clean_pre,
                   tmeta, clock, lmeta, results, runs, result, exit_code, loading>>

\* issues_out.to_sql("data_issues", conn, if_exists="replace")
LoadIssues ==
    /\ pc = "load_issues"
    /\ db' = WriteIssues(db, IssuesOut, "replace")
    /\ pc' = "load_log"
    /\ UNCHANGED <<pandasTwo, columns, raw_df, out, clean_df, issues_df, clean_pre,
                   tmeta, clock, lmeta, results, runs, result, exit_code, loading>>

\* the INSERT OR REPLACE into pipeline_runs, conn.commit(), and the return
LoadLog ==
    /\ pc = "load_log"
    /\ db' = LogRun(db, loading[1].run_id, loading[1].loaded_at_utc,
                    CleanOut, IssuesOut)
    /\ lmeta' = [run_id |-> loading[1].run_id,
                 loaded_at_utc |-> loading[1].loaded_at_utc,
                 rows_loaded_clean |-> Len(CleanOut),
                 rows_loaded_issues |-> Len(IssuesOut)]
    /\ loading' = <<>>
    /\ pc' = "query"
    /\ UNCHANGED <<pandasTwo, columns, raw_df, out, clean_df, issues_df, clean_pre,
                   tmeta, clock, results, runs, result, exit_code>>

\* the statement load_to_sqlite is at raises (the database is locked, the
\* disk is full): nothing of that statement is kept, what earlier statements
\* committed stays, the finally clause closes the connection, and
\* run_pipeline catches the exception
LoadFails ==
    /\ pc \in LoadSteps
    /\ pc' = "failed"
    /\ result' = UnexpectedError("database is locked")
    /\ UNCHANGED <<pandasTwo, columns, raw_df, out, clean_df, issues_df, clean_pre,
                   tmeta, clock, db, lmeta, results, runs, exit_code, loading>>

\* generate_excel_report raises (the workbook is open in another program)
ReportFails ==
    /\ pc = "report"
    /\ pc' = "failed"
    /\ result' = UnexpectedError("Permission denied")
    /\ UNCHANGED <<pandasTwo, columns, raw_df, out, clean_df, issues_df, clean_pre,
                   tmeta, clock, db, lmeta, results, runs, exit_code, loading>>

\* main(): raise SystemExit(0 if result.success else 1)
Exit ==
    /\ pc \in {"done", "failed"}
    /\ exit_code' = <<IF result.success THEN 0 ELSE 1>>
    /\ pc' = "exited"
    /\ UNCHANGED <<pandasTwo, columns, raw_df, out, clean_df, issues_df, clean_pre,
                   tmeta, clock, db, lmeta, results, runs, result, loading>>

\* main() is started again, on the same database file
Restart ==
    /\ pc = "exited"
    /\ Len(runs) < MaxRuns
    /\ pc' = "ingest"
    /\ raw_df' = <<>>
    /\ columns' = {}
    /\ out' = <<>>
    /\ clean_df' = <<>>
    /\ issues_df' = <<>>
    /\ clean_pre' = <<>>
    /\ tmeta' = NoMeta
    /\ lmeta' = NoLoadMeta
    /\ results' = NoResults
    /\ result' = NoResult
    /\ exit_code' = <<>>
    /\ loading' = <<>>
    /\ UNCHANGED <<pandasTwo, clock, db, runs>>

InitPipeline ==
    /\ pandasTwo \in BOOLEAN
    /\ columns = {}
    /\ raw_df = <<>>
    /\ pc = "ingest"
    /\ out = <<>>
    /\ clean_df = <<>>
    /\ issues_df = <<>>
    /\ clean_pre = <<>>
    /\ tmeta = NoMeta
    /\ clock = 0
    /\ db = EmptyDb
    /\ lmeta = NoLoadMeta
    /\ results = NoResults
    /\ runs = <<>>
    /\ result = NoResult
    /\ exit_code = <<>>
    /\ loading = <<>>

NextPipeline ==
    \/ Ingest \/ Transform \/ Tick \/ LoadStart \/ LoadTransactions \/ LoadIssues
    \/ LoadLog \/ LoadFails \/ Query \/ Report \/ ReportFails \/ Exit \/ Restart

SpecPipeline == InitPipeline /\ [][NextPipeline]_vars

----------------------------------------------------------------------------
(* Properties of the pipeline                                              *)

\* load_to_sqlite raised in this run
LoadFailed == pc \in {"failed", "exited"} /\ loading # <<>>

\* the run_id values a table's rows carry
RunIdsOf(table) == {table[i].run_id : i \in 1..Len(table)}

\* C11: persistence per run is all-or-nothing: when load_to_sqlite fails at
\* any step the store is as the run found it, and whoever reads the store
\* while no load is in progress sees transactions and data_issues rows of one
\* and the same run, each with that run's pipeline_runs entry.
C11_AllOrNothing ==
    /\ LoadFailed => db = loading[1].before
    /\ pc \notin LoadSteps =>
          /\ Cardinality(RunIdsOf(db.transactions) \cup RunIdsOf(db.data_issues)) <= 1
          /\ RunIdsOf(db.transactions) \cup RunIdsOf(db.data_issues)
                 \subseteq DOMAIN db.pipeline_runs

\* the positions of run_pipeline in the order its stages run; load_to_sqlite
\* takes four of them
StageOrder ==
    <<"ingest", "transform", "load", "load_transactions", "load_issues",
      "load_log", "query", "report", "done">>

Position(p) == CHOOSE i \in 1..Len(StageOrder) : StageOrder[i] = p

Running == {StageOrder[i] : i \in 1..(Len(StageOrder) - 1)}

\* one step of the run: the stages advance in order and only the last one
\* returns success; a stage that fails returns success false; once the run
\* has failed nothing but the exit happens
PipelineStep ==
    /\ pc \in Running /\ pc' # pc =>
          \/ pc' = StageOrder[Position(pc) + 1]
          \/ pc' = "failed"
    /\ pc' = "done" /\ pc # "done" =>
          pc = "report" /\ result'.returned /\ result'.success
    /\ pc' = "failed" /\ pc # "failed" =>
          result'.returned /\ ~result'.success
    /\ pc \in Running /\ pc' \in Running => result' = NoResult
    /\ pc = "failed" =>
          /\ pc' \in {"failed", "exited"}
          /\ UNCHANGED <<raw_df, out, clean_df, issues_df, tmeta, db, lmeta,
                         results, runs, result>>
    /\ pc = "done" => pc' \in {"done", "exited"} /\ result' = result

\* what the caller of run_pipeline and of main() sees
PipelineOutcome ==
    /\ pc \in {"done", "failed", "exited"} => result.returned /\ result.message # ""
    /\ pc \in Running => ~result.returned /\ exit_code = <<>>
    /\ pc = "done" => result.success /\ lmeta # NoLoadMeta /\ loading = <<>>
    /\ pc = "failed" => ~result.success
    /\ result.returned /\ result.success =>
          /\ tmeta.rows_in = Len(raw_df)
          /\ result.run_id = <<lmeta.run_id>>
          /\ results = GetQueryResults(db, lmeta.run_id)
    /\ pc = "exited" => exit_code = <<IF result.success THEN 0 ELSE 1>>

----------------------------------------------------------------------------
(* The Amount Canonicalizer on a text X and on "(X)"                       *)

\* the amount texts X
AmountTexts ==
    { <<"4", "5", ".", "1", "0">>,
      <<"$", "1", ",", "2", "3", "4", ".", "5", "6">>,
      <<"-", "1", "0">>,
      <<"1", "0">>,
      <<"$", "5">>,
      <<"$", "(", "5", ")">>,
      <<"$">>,
      <<>>,
      <<"(", "5", ")">>,
      <<" ", "5", " ">>,
      <<"0">>,
      <<".", "5">>,
      <<"5", ".">>,
      <<"x">>,
      <<"1", ",", "0">>,
      <<"4", ".", "5", "0", "6">> }

\* a table of two rows: one with the amount X, one with the amount "(X)"
AmountPair(x) ==
    <<RawRow(<<"2", "0", "2", "4", "-", "0", "1", "-", "0", "2">>, <<"A">>, x,
             <<>>, <<"a", ".", "c", "s", "v">>),
      RawRow(<<"2", "0", "2", "4", "-", "0", "1", "-", "0", "2">>, <<"B">>,
             <<"(">> \o x \o <<")">>, <<>>, <<"a", ".", "c", "s", "v">>)>>

InitAmount ==
    /\ pandasTwo \in BOOLEAN
    /\ columns = AllColumns
    /\ raw_df \in {AmountPair(x) : x \in AmountTexts}
    /\ pc = "transform"
    /\ out = <<>>
    /\ clean_df = <<>>
    /\ issues_df = <<>>
    /\ clean_pre = <<>>
    /\ tmeta = NoMeta
    /\ clock = 0
    /\ db = EmptyDb
    /\ lmeta = NoLoadMeta
    /\ results = NoResults
    /\ runs = <<>>
    /\ result = NoResult
    /\ exit_code = <<>>
    /\ loading = <<>>

SpecAmount == InitAmount /\ [][Next]_vars

\* s is wrapped entirely in parentheses
Wrapped(s) == Len(s) >= 2 /\ s[1] = "(" /\ s[Len(s)] = ")"

\* s is made of the characters in cs only
MadeOf(s, cs) == \A i \in 1..Len(s) : s[i] \in cs

\* row i of out holds the float of sign neg and of c hundredths
IsCents(i, neg, c) == out[i].amount_num = MkFloat(neg, c * (Scale \div 100))

\* the steps of the Amount Canonicalizer as seen on every row: the spec's
\* three examples; "$" and "," alone leave (undefined, not invalid); a text
\* that is wrapped in parentheses only once "$" and "," are gone is not
\* taken as a negative
AmountSteps ==
    \A i \in 1..Len(out) :
        LET t == CleanText(raw_df[i].amount)
        IN  /\ t = <<"(", "4", "5", ".", "1", "0", ")">> =>
                   IsCents(i, TRUE, 4510) /\ ~out[i].issue_amount_invalid
            /\ t = <<"$", "1", ",", "2", "3", "4", ".", "5", "6">> =>
                   IsCents(i, FALSE, 123456) /\ ~out[i].issue_amount_invalid
            /\ t = <<"-", "1", "0">> =>
                   IsCents(i, TRUE, 1000) /\ ~out[i].issue_amount_invalid
            /\ MadeOf(t, {"$", ","}) =>
                   out[i].amount_num.nan /\ ~out[i].issue_amount_invalid
            /\ ~Wrapped(t) /\ Wrapped(RemoveChars(t, {"$", ","})) =>
                   out[i].amount_num.nan /\ out[i].issue_amount_invalid

\* row 2 holds the amount of row 1 in parentheses
IsAmountPair ==
    /\ Transformed
    /\ Len(raw_df) = 2
    /\ raw_df[2].amount = <<"(">> \o raw_df[1].amount \o <<")">>

\* "(X)" canonicalizes to minus the value of X
Negated ==
    /\ ~out[2].amount_num.nan
    /\ ~out[2].issue_amount_invalid
    /\ Val(out[2].amount_num) = 0 - Val(out[1].amount_num)

----------------------------------------------------------------------------
(* Properties of repeated replace-mode runs                                *)

\* every load so far was a replace-mode load, and the latest has returned
ReplaceRunsLoaded ==
    /\ pc \in {"query", "report", "done"}
    /\ runs # <<>>
    /\ \A i \in 1..Len(runs) : runs[i].mode = "replace"

\* C14: after any sequence of successful replace-mode runs the two tables
\* hold exactly the deduplicated clean rows and the issue rows of the latest
\* run, every row carries that run's run_id, the pipeline_runs entry of that
\* run_id records their counts, and the Summary row_count of the query
\* filtered by that run_id is the transform's rows_out_clean.
C14_ReplaceRuns ==
    ReplaceRunsLoaded =>
        /\ db.transactions =
               AddAuditColumns(clean_df, lmeta.run_id, lmeta.loaded_at_utc)
        /\ db.data_issues =
               AddAuditColumns(issues_df, lmeta.run_id, lmeta.loaded_at_utc)
        /\ Len(db.transactions) = tmeta.rows_out_clean
        /\ Len(db.data_issues) = tmeta.rows_out_issues
        /\ RunIdsOf(db.transactions) \cup RunIdsOf(db.data_issues) \subseteq {lmeta.run_id}
        /\ lmeta.run_id \in DOMAIN db.pipeline_runs
        /\ db.pipeline_runs[lmeta.run_id].rows_loaded_clean = Len(db.transactions)
        /\ db.pipeline_runs[lmeta.run_id].rows_loaded_issues = Len(db.data_issues)
        /\ Queried => results.kpi_summary.row_count = tmeta.rows_out_clean

\* a second replace-mode run has finished within the same second as the
\* first one, with clean rows and issue rows to store
C14_Witness ==
    /\ ReplaceRunsLoaded
    /\ pc = "done"
    /\ Len(runs) = 2
    /\ runs[1].run_id = runs[2].run_id
    /\ tmeta.rows_out_clean >= 1
    /\ tmeta.rows_out_issues >= 1

====
